---------------------------- MODULE Spec2Model ----------------------------
(***************************************************************************)
(* A model of src/Native/Unix/System.Native/pal_time.c: the file-time      *)
(* setters SystemNative_UTime / SystemNative_UTimes with their             *)
(* interrupted-call retry loops, and the clock queries                     *)
(* SystemNative_GetTimestampResolution, SystemNative_GetTimestamp,         *)
(* SystemNative_GetAbsoluteTime and SystemNative_GetTimebaseInfo under     *)
(* every combination of the HAVE_* build switches.                         *)
(*                                                                         *)
(* The operating system (utime, utimes, clock_gettime, gettimeofday,       *)
(* mach_absolute_time, mach_timebase_info) is the environment: each call   *)
(* of it is a nondeterministic choice among the outcomes it can produce.   *)
(***************************************************************************)
EXTENDS Integers, Sequences, FiniteSets

VARIABLES
    \* ---- file-time part -------------------------------------------------
    fs,        \* the file system: path -> [atime, mtime], each <<sec, usec>>
    pc,        \* where the calling thread is: "idle", "UTime:loop", "UTime:ret",
               \* "UTimes:loop", "UTimes:ret"
    path,      \* argument: const char* path
    times,     \* argument: *times (UTimBuf or TimeValPair)
    temp,      \* local: struct utimbuf temp / struct timeval temp[2]
    result,    \* local: int32_t result
    errno,     \* the thread's errno
    calls,     \* history: the underlying utime/utimes calls of the current call
    intr,      \* history: how many of them were interrupted by a signal
    \* ---- clock part -----------------------------------------------------
    platform,  \* the build switches and what this machine's clocks can do
    now,       \* the instant the operating system's clocks are at
    aborted,   \* "no", or the function whose assert() failed: the process is gone
    probed,    \* a GetTimestampResolution call has returned 1
    resHist,   \* history: the last two GetTimestampResolution results
    tsHist,    \* history: the last two GetTimestamp results
    absOut,    \* history: the last GetAbsoluteTime result (<<>> before any)
    tbOut      \* history: the last GetTimebaseInfo result (<<>> before any)

fileVars  == <<fs, pc, path, times, temp, result, errno, calls, intr>>
clockVars == <<platform, now, aborted, probed, resHist, tsHist, absOut, tbOut>>
vars      == <<fs, pc, path, times, temp, result, errno, calls, intr,
               platform, now, aborted, probed, resHist, tsHist, absOut, tbOut>>

(***************************************************************************)
(* Bounds of the model.                                                    *)
(***************************************************************************)
\* How many times the operating system interrupts one call with a signal.
MaxIntr == 2
\* The last instant of the modelled clocks.
MaxTime == 3
\* The largest numerator / denominator mach_timebase_info reports.
MaxRatio == 2

(***************************************************************************)
(* The program's constants.                                                *)
(***************************************************************************)
SecondsToMicroSeconds == 1000000
SecondsToNanoSeconds == 1000000000

(***************************************************************************)
(* uint64_t values.  TLC's integers are 32 bits wide, so a                 *)
(* uint64_t is held as two digits in base 10^9: hi * 10^9 + lo.  Every     *)
(* value the model computes is below 2^31 * 10^9 < 2^64, so none wraps.    *)
(***************************************************************************)
U64(n) == [hi |-> n \div SecondsToNanoSeconds, lo |-> n % SecondsToNanoSeconds]

\* (uint64_t)a * m, for a factor m that divides 10^9 (10^6 and 10^9 do).
U64Mul(a, m) ==
    LET k == SecondsToNanoSeconds \div m
    IN  [hi |-> a \div k, lo |-> (a % k) * m]

\* x + (uint64_t)n, for n < 10^9.
U64Add(x, n) ==
    LET s == x.lo + n
    IN  [hi |-> x.hi + (s \div SecondsToNanoSeconds), lo |-> s % SecondsToNanoSeconds]

U64Leq(x, y) == x.hi < y.hi \/ (x.hi = y.hi /\ x.lo <= y.lo)

(***************************************************************************)
(* The file-time setters.                                                  *)
(***************************************************************************)
ValidPaths == {"/tmp/x"}
Paths == ValidPaths \cup {"/tmp/missing"}

\* The caller's UTimBuf values: seconds since the epoch.
TimeSamples == {0, 7, 1000000000}
UTimBufs == [AcTime : TimeSamples, ModTime : TimeSamples]

\* The caller's TimeValPair values; 1000000 is no valid microsecond count.
SecSamples == {7, 1000000000}
USecSamples == {0, 999999, 1000000}
TimeValPairs ==
    [AcTimeSec : SecSamples, AcTimeUSec : USecSamples,
     ModTimeSec : SecSamples, ModTimeUSec : {0, 999999}]

\* (time_t)x and (long)x: both types hold every value of the model's integers,
\* and a conversion to a signed type that holds the value keeps it.
CastTimeT(x) == x
CastLong(x) == x

ConvertUTimBufSwapped(pal) ==
    [actime |-> CastTimeT(pal.ModTime), modtime |-> CastTimeT(pal.AcTime)]

ConvertUTimBuf(pal) ==
    [actime |-> CastTimeT(pal.AcTime), modtime |-> CastTimeT(pal.ModTime)]

ConvertTimeValPair(pal) ==
    << [tv_sec |-> CastLong(pal.AcTimeSec), tv_usec |-> CastLong(pal.AcTimeUSec)],
       [tv_sec |-> CastLong(pal.ModTimeSec), tv_usec |-> CastLong(pal.ModTimeUSec)] >>

\* CheckInterrupted (pal_utilities.h): the call failed and errno is EINTR.
CheckInterrupted(r, e) == r < 0 /\ e = "EINTR"

\* What the operating system can answer to utime(p, ...): a signal may
\* interrupt it (at most MaxIntr times in one call); otherwise it succeeds on
\* a file the caller may update and fails with ENOENT on a missing one.
UtimeOutcomes(p) ==
    (IF intr < MaxIntr THEN {"EINTR"} ELSE {})
        \cup (IF p \in ValidPaths THEN {"ok"} ELSE {"ENOENT"})

\* utimes(p, tv) also rejects a microsecond count outside 0..999999.
UtimesOutcomes(p, tv) ==
    (IF intr < MaxIntr THEN {"EINTR"} ELSE {})
        \cup (IF \E i \in 1..2 : tv[i].tv_usec < 0 \/ tv[i].tv_usec >= SecondsToMicroSeconds
              THEN {"EINVAL"}
              ELSE IF p \in ValidPaths THEN {"ok"} ELSE {"ENOENT"})

\* utime(p, buf) with outcome o: the file system after it, its return value and errno.
Utime(p, buf, o) ==
    IF o = "ok"
    THEN [fs |-> [fs EXCEPT ![p] = [atime |-> <<buf.actime, 0>>,
                                    mtime |-> <<buf.modtime, 0>>]],
          ret |-> 0, errno |-> errno]
    ELSE [fs |-> fs, ret |-> -1, errno |-> o]

\* utimes(p, tv) with outcome o.
Utimes(p, tv, o) ==
    IF o = "ok"
    THEN [fs |-> [fs EXCEPT ![p] = [atime |-> <<tv[1].tv_sec, tv[1].tv_usec>>,
                                    mtime |-> <<tv[2].tv_sec, tv[2].tv_usec>>]],
          ret |-> 0, errno |-> errno]
    ELSE [fs |-> fs, ret |-> -1, errno |-> o]

\* stat(p): the file's access and modification times.
Stat(p) == fs[p]

\* SystemNative_UTime, lines 39-42: times is not NULL (the caller's contract);
\* convert it.  result is not yet assigned.
UTimeEnter ==
    /\ pc = "idle"
    /\ \E p \in Paths, t \in UTimBufs :
        /\ path' = p
        /\ times' = t
        /\ temp' = ConvertUTimBuf(t)
    /\ calls' = <<>>
    /\ intr' = 0
    /\ pc' = "UTime:loop"
    /\ UNCHANGED <<fs, result, errno>>
    /\ UNCHANGED clockVars

\* A loop that gives up after the first interrupted call.
UTimeLoopNoRetry ==
    /\ pc = "UTime:loop"
    /\ \E o \in UtimeOutcomes(path) :
        LET r == Utime(path, temp, o)
        IN  /\ fs' = r.fs
            /\ result' = r.ret
            /\ errno' = r.errno
            /\ calls' = Append(calls, [path |-> path, times |-> temp,
                                       ret |-> r.ret, errno |-> r.errno])
            /\ intr' = IF o = "EINTR" THEN intr + 1 ELSE intr
            /\ pc' = "UTime:ret"
    /\ UNCHANGED <<path, times, temp>>
    /\ UNCHANGED clockVars

\* One iteration of  while (CheckInterrupted(result = utime(path, &temp)));
\* and, when it ends the loop,  return result;
UTimeLoop ==
    /\ pc = "UTime:loop"
    /\ \E o \in UtimeOutcomes(path) :
        LET r == Utime(path, temp, o)
        IN  /\ fs' = r.fs
            /\ result' = r.ret
            /\ errno' = r.errno
            /\ calls' = Append(calls, [path |-> path, times |-> temp,
                                       ret |-> r.ret, errno |-> r.errno])
            /\ intr' = IF o = "EINTR" THEN intr + 1 ELSE intr
            /\ pc' = IF CheckInterrupted(r.ret, r.errno) THEN "UTime:loop" ELSE "UTime:ret"
    /\ UNCHANGED <<path, times, temp>>
    /\ UNCHANGED clockVars

\* SystemNative_UTimes, lines 51-54.
UTimesEnter ==
    /\ pc = "idle"
    /\ \E p \in Paths, t \in TimeValPairs :
        /\ path' = p
        /\ times' = t
        /\ temp' = ConvertTimeValPair(t)
    /\ calls' = <<>>
    /\ intr' = 0
    /\ pc' = "UTimes:loop"
    /\ UNCHANGED <<fs, result, errno>>
    /\ UNCHANGED clockVars

\* A loop that retries at most once.
UTimesLoopCapped ==
    /\ pc = "UTimes:loop"
    /\ \E o \in UtimesOutcomes(path, temp) :
        LET r == Utimes(path, temp, o)
        IN  /\ fs' = r.fs
            /\ result' = r.ret
            /\ errno' = r.errno
            /\ calls' = Append(calls, [path |-> path, times |-> temp,
                                       ret |-> r.ret, errno |-> r.errno])
            /\ intr' = IF o = "EINTR" THEN intr + 1 ELSE intr
            /\ pc' = IF CheckInterrupted(r.ret, r.errno) /\ Len(calls) < 1
                     THEN "UTimes:loop" ELSE "UTimes:ret"
    /\ UNCHANGED <<path, times, temp>>
    /\ UNCHANGED clockVars

\* One iteration of  while (CheckInterrupted(result = utimes(path, temp)));
\* and, when it ends the loop,  return result;
UTimesLoop ==
    /\ pc = "UTimes:loop"
    /\ \E o \in UtimesOutcomes(path, temp) :
        LET r == Utimes(path, temp, o)
        IN  /\ fs' = r.fs
            /\ result' = r.ret
            /\ errno' = r.errno
            /\ calls' = Append(calls, [path |-> path, times |-> temp,
                                       ret |-> r.ret, errno |-> r.errno])
            /\ intr' = IF o = "EINTR" THEN intr + 1 ELSE intr
            /\ pc' = IF CheckInterrupted(r.ret, r.errno) THEN "UTimes:loop" ELSE "UTimes:ret"
    /\ UNCHANGED <<path, times, temp>>
    /\ UNCHANGED clockVars

\* The caller has the return value (and may stat the file); it goes on.
CallerResumes ==
    /\ pc \in {"UTime:ret", "UTimes:ret"}
    /\ pc' = "idle"
    /\ UNCHANGED <<fs, path, times, temp, result, errno, calls, intr>>
    /\ UNCHANGED clockVars

(***************************************************************************)
(* The clocks.                                                             *)
(***************************************************************************)
\* A platform: the build switches of pal_config.h, whether asserts are
\* compiled out, and what this machine answers.  clock_gettime(CLOCK_MONOTONIC)
\* fails only "if MONOTONIC isn't supported or &ts is an invalid address"
\* (line 109), and mach_timebase_info reports the machine's fixed ratio: both
\* are the same for the life of the process.  What a build does not use is
\* fixed, so that no platform is counted twice.
Platforms ==
    { p \in [HAVE_CLOCK_MONOTONIC : BOOLEAN,
             HAVE_MACH_ABSOLUTE_TIME : BOOLEAN,
             HAVE_MACH_TIMEBASE_INFO : BOOLEAN,
             NDEBUG : BOOLEAN,
             monotonicCallable : BOOLEAN,
             timebaseOk : BOOLEAN,
             numer : 1..MaxRatio,
             denom : 1..MaxRatio] :
        /\ (~p.HAVE_CLOCK_MONOTONIC => p.monotonicCallable)
        /\ (~(p.HAVE_MACH_ABSOLUTE_TIME \/ p.HAVE_MACH_TIMEBASE_INFO)
               => p.timebaseOk /\ p.numer = 1 /\ p.denom = 1)
        /\ (~p.timebaseOk => p.numer = 1 /\ p.denom = 1)
        /\ (~( (p.HAVE_CLOCK_MONOTONIC /\ ~p.monotonicCallable)
               \/ (p.HAVE_MACH_TIMEBASE_INFO /\ ~p.timebaseOk) ) => p.NDEBUG) }

\* The sub-second parts the clocks are read at.
NsecSamples == <<0, 999999999>>
USecReadings == <<0, 999999>>

\* clock_gettime(CLOCK_MONOTONIC, &ts) at instant t; on failure ts is not written.
ClockGettime(p, t) ==
    IF p.monotonicCallable
    THEN [rc |-> 0, ts |-> [tv_sec |-> t \div 2, tv_nsec |-> NsecSamples[(t % 2) + 1]]]
    ELSE [rc |-> -1, ts |-> [tv_sec |-> 0, tv_nsec |-> 0]]

\* gettimeofday(&tv, NULL) at instant t, when it succeeds (ok) and when it fails.
Gettimeofday(t, ok) ==
    IF ok
    THEN [rc |-> 0, tv |-> [tv_sec |-> 1000000000 + (t \div 2),
                            tv_usec |-> USecReadings[(t % 2) + 1]]]
    ELSE [rc |-> -1, tv |-> [tv_sec |-> 0, tv_usec |-> 0]]

\* mach_absolute_time() at instant t: the machine's tick count.
MachAbsoluteTime(t) == U64(t + 1)

\* mach_timebase_info(&info).
MachTimebaseInfo(p) ==
    IF p.timebaseOk
    THEN [kr |-> "KERN_SUCCESS", numer |-> p.numer, denom |-> p.denom]
    ELSE [kr |-> "KERN_FAILURE", numer |-> 0, denom |-> 0]

\* What an unwritten struct timespec may hold.
JunkTimespecs == {[tv_sec |-> 0, tv_nsec |-> 0], [tv_sec |-> 3, tv_nsec |-> 5]}

\* A resolution that is the clock's reading instead of the unit.
GetTimestampResolutionReading(p, t) ==
    IF p.HAVE_CLOCK_MONOTONIC
    THEN LET r == ClockGettime(p, t)
         IN  IF r.rc = 0
             THEN [ret |-> 1, resolution |->
                      U64Add(U64Mul(r.ts.tv_sec, SecondsToNanoSeconds), r.ts.tv_nsec)]
             ELSE [ret |-> 0, resolution |-> U64(0)]
    ELSE IF p.HAVE_MACH_ABSOLUTE_TIME
    THEN [ret |-> 1, resolution |-> MachAbsoluteTime(t)]
    ELSE [ret |-> 1, resolution |-> U64Add(U64(SecondsToMicroSeconds), t)]

\* A probe whose failure is reported with the resolution left in place.
GetTimestampResolutionNoZero(p, t) ==
    IF p.HAVE_CLOCK_MONOTONIC
    THEN IF ClockGettime(p, t).rc = 0
         THEN [ret |-> 1, resolution |-> U64(SecondsToNanoSeconds)]
         ELSE [ret |-> 0, resolution |-> U64(SecondsToNanoSeconds)]
    ELSE IF p.HAVE_MACH_ABSOLUTE_TIME
    THEN LET mtid == MachTimebaseInfo(p)
         IN  IF mtid.kr = "KERN_SUCCESS"
             THEN [ret |-> 1, resolution |->
                      U64Mul(mtid.denom \div mtid.numer, SecondsToNanoSeconds)]
             ELSE [ret |-> 0, resolution |-> U64(0)]
    ELSE [ret |-> 1, resolution |-> U64(SecondsToMicroSeconds)]

\* The ratio taken upside down: numer / denom.
GetTimestampResolutionSwapped(p, t) ==
    IF p.HAVE_CLOCK_MONOTONIC
    THEN IF ClockGettime(p, t).rc = 0
         THEN [ret |-> 1, resolution |-> U64(SecondsToNanoSeconds)]
         ELSE [ret |-> 0, resolution |-> U64(0)]
    ELSE IF p.HAVE_MACH_ABSOLUTE_TIME
    THEN LET mtid == MachTimebaseInfo(p)
         IN  IF mtid.kr = "KERN_SUCCESS"
             THEN [ret |-> 1, resolution |->
                      U64Mul(mtid.numer \div mtid.denom, SecondsToNanoSeconds)]
             ELSE [ret |-> 0, resolution |-> U64(0)]
    ELSE [ret |-> 1, resolution |-> U64(SecondsToMicroSeconds)]

\* SystemNative_GetTimestampResolution at instant t: the return value and
\* *resolution.  The division is uint64_t division: it truncates.
GetTimestampResolution(p, t) ==
    IF p.HAVE_CLOCK_MONOTONIC
    THEN IF ClockGettime(p, t).rc = 0
         THEN [ret |-> 1, resolution |-> U64(SecondsToNanoSeconds)]
         ELSE [ret |-> 0, resolution |-> U64(0)]
    ELSE IF p.HAVE_MACH_ABSOLUTE_TIME
    THEN LET mtid == MachTimebaseInfo(p)
         IN  IF mtid.kr = "KERN_SUCCESS"
             THEN [ret |-> 1, resolution |->
                      U64Mul(mtid.denom \div mtid.numer, SecondsToNanoSeconds)]
             ELSE [ret |-> 0, resolution |-> U64(0)]
    ELSE [ret |-> 1, resolution |-> U64(SecondsToMicroSeconds)]

\* A timestamp that leaves the seconds out.
GetTimestampNoSeconds(p, t, gtodOk, junk) ==
    IF p.HAVE_CLOCK_MONOTONIC
    THEN LET r == ClockGettime(p, t)
             ts == IF r.rc = 0 THEN r.ts ELSE junk
         IN  IF r.rc # 0 /\ ~p.NDEBUG
             THEN [abort |-> TRUE, ret |-> 0, timestamp |-> U64(0)]
             ELSE [abort |-> FALSE, ret |-> 1, timestamp |-> U64(ts.tv_nsec)]
    ELSE IF p.HAVE_MACH_ABSOLUTE_TIME
    THEN [abort |-> FALSE, ret |-> 1, timestamp |-> MachAbsoluteTime(t)]
    ELSE LET r == Gettimeofday(t, gtodOk)
         IN  IF r.rc = 0
             THEN [abort |-> FALSE, ret |-> 1, timestamp |-> U64(r.tv.tv_usec)]
             ELSE [abort |-> FALSE, ret |-> 0, timestamp |-> U64(0)]

\* A fallback path that reports success whatever gettimeofday answered.
GetTimestampAlwaysOne(p, t, gtodOk, junk) ==
    IF p.HAVE_CLOCK_MONOTONIC
    THEN LET r == ClockGettime(p, t)
             ts == IF r.rc = 0 THEN r.ts ELSE junk
         IN  IF r.rc # 0 /\ ~p.NDEBUG
             THEN [abort |-> TRUE, ret |-> 0, timestamp |-> U64(0)]
             ELSE [abort |-> FALSE, ret |-> 1, timestamp |->
                      U64Add(U64Mul(ts.tv_sec, SecondsToNanoSeconds), ts.tv_nsec)]
    ELSE IF p.HAVE_MACH_ABSOLUTE_TIME
    THEN [abort |-> FALSE, ret |-> 1, timestamp |-> MachAbsoluteTime(t)]
    ELSE LET r == Gettimeofday(t, gtodOk)
         IN  [abort |-> FALSE, ret |-> 1, timestamp |->
                 U64Add(U64Mul(r.tv.tv_sec, SecondsToMicroSeconds), r.tv.tv_usec)]

\* SystemNative_GetTimestamp at instant t.  gtodOk: whether gettimeofday
\* succeeds this time; junk: what ts holds when clock_gettime did not write it.
\* With asserts compiled in, a failed clock_gettime ends the process; with
\* them compiled out, the unwritten ts is converted.
GetTimestamp(p, t, gtodOk, junk) ==
    IF p.HAVE_CLOCK_MONOTONIC
    THEN LET r == ClockGettime(p, t)
             ts == IF r.rc = 0 THEN r.ts ELSE junk
         IN  IF r.rc # 0 /\ ~p.NDEBUG
             THEN [abort |-> TRUE, ret |-> 0, timestamp |-> U64(0)]
             ELSE [abort |-> FALSE, ret |-> 1, timestamp |->
                      U64Add(U64Mul(ts.tv_sec, SecondsToNanoSeconds), ts.tv_nsec)]
    ELSE IF p.HAVE_MACH_ABSOLUTE_TIME
    THEN [abort |-> FALSE, ret |-> 1, timestamp |-> MachAbsoluteTime(t)]
    ELSE LET r == Gettimeofday(t, gtodOk)
         IN  IF r.rc = 0
             THEN [abort |-> FALSE, ret |-> 1, timestamp |->
                      U64Add(U64Mul(r.tv.tv_sec, SecondsToMicroSeconds), r.tv.tv_usec)]
             ELSE [abort |-> FALSE, ret |-> 0, timestamp |-> U64(0)]

\* A build without the facility that still reports success.
GetAbsoluteTimeAlwaysOne(p, t) ==
    IF p.HAVE_MACH_ABSOLUTE_TIME
    THEN [ret |-> 1, timestamp |-> MachAbsoluteTime(t)]
    ELSE [ret |-> 1, timestamp |-> U64(0)]

\* SystemNative_GetAbsoluteTime at instant t.
GetAbsoluteTime(p, t) ==
    IF p.HAVE_MACH_ABSOLUTE_TIME
    THEN [ret |-> 1, timestamp |-> MachAbsoluteTime(t)]
    ELSE [ret |-> 0, timestamp |-> U64(0)]

\* SystemNative_GetTimebaseInfo: assert(ret == KERN_SUCCESS) ends the process
\* when asserts are compiled in; compiled out, a failed probe gives (1, 1).
GetTimebaseInfo(p) ==
    IF p.HAVE_MACH_TIMEBASE_INFO
    THEN LET timebase == MachTimebaseInfo(p)
         IN  IF timebase.kr = "KERN_SUCCESS"
             THEN [abort |-> FALSE, ret |-> 1,
                   numer |-> timebase.numer, denom |-> timebase.denom]
             ELSE [abort |-> ~p.NDEBUG, ret |-> 1, numer |-> 1, denom |-> 1]
    ELSE [abort |-> FALSE, ret |-> 1, numer |-> 1, denom |-> 1]

\* Whether the clock GetTimestamp reads gave a reading.
ReadingTaken(p, gtodOk) ==
    IF p.HAVE_CLOCK_MONOTONIC THEN p.monotonicCallable
    ELSE IF p.HAVE_MACH_ABSOLUTE_TIME THEN TRUE
    ELSE gtodOk

\* The last two entries of a history.
Last2(h) == IF Len(h) <= 2 THEN h ELSE SubSeq(h, Len(h) - 1, Len(h))

\* A call of SystemNative_GetTimestampResolution.
SystemNative_GetTimestampResolution ==
    /\ aborted = "no"
    /\ LET r == GetTimestampResolution(platform, now)
       IN  /\ resHist' = Last2(Append(resHist, r))
           /\ probed' = (probed \/ r.ret = 1)
    /\ UNCHANGED <<platform, now, aborted, tsHist, absOut, tbOut>>
    /\ UNCHANGED fileVars

\* A call of SystemNative_GetTimestamp.
SystemNative_GetTimestamp ==
    /\ aborted = "no"
    /\ \E gtodOk \in (IF platform.HAVE_CLOCK_MONOTONIC \/ platform.HAVE_MACH_ABSOLUTE_TIME
                      THEN {TRUE} ELSE BOOLEAN),
          junk \in (IF platform.HAVE_CLOCK_MONOTONIC /\ ~platform.monotonicCallable
                    THEN JunkTimespecs ELSE {[tv_sec |-> 0, tv_nsec |-> 0]}) :
        LET r == GetTimestamp(platform, now, gtodOk, junk)
        IN  IF r.abort
            THEN /\ aborted' = "GetTimestamp"
                 /\ UNCHANGED tsHist
            ELSE /\ UNCHANGED aborted
                 /\ tsHist' = Last2(Append(tsHist,
                        [ret |-> r.ret, timestamp |-> r.timestamp, at |-> now,
                         read |-> ReadingTaken(platform, gtodOk),
                         afterProbe |-> probed]))
    /\ UNCHANGED <<platform, now, probed, resHist, absOut, tbOut>>
    /\ UNCHANGED fileVars

\* A call of SystemNative_GetAbsoluteTime.
SystemNative_GetAbsoluteTime ==
    /\ aborted = "no"
    /\ absOut' = <<GetAbsoluteTime(platform, now)>>
    /\ UNCHANGED <<platform, now, aborted, probed, resHist, tsHist, tbOut>>
    /\ UNCHANGED fileVars

\* A call of SystemNative_GetTimebaseInfo.
SystemNative_GetTimebaseInfo ==
    /\ aborted = "no"
    /\ LET r == GetTimebaseInfo(platform)
       IN  IF r.abort
           THEN aborted' = "GetTimebaseInfo" /\ UNCHANGED tbOut
           ELSE /\ UNCHANGED aborted
                /\ tbOut' = <<[ret |-> r.ret, numer |-> r.numer, denom |-> r.denom]>>
    /\ UNCHANGED <<platform, now, probed, resHist, tsHist, absOut>>
    /\ UNCHANGED fileVars

\* Time passes.
Tick ==
    /\ aborted = "no"
    /\ now < MaxTime
    /\ now' = now + 1
    /\ UNCHANGED <<platform, aborted, probed, resHist, tsHist, absOut, tbOut>>
    /\ UNCHANGED fileVars

\* The wall clock, which only the gettimeofday build reads, is set back.
AdjustClock ==
    /\ aborted = "no"
    /\ ~platform.HAVE_CLOCK_MONOTONIC /\ ~platform.HAVE_MACH_ABSOLUTE_TIME
    /\ \E t \in 0..(now - 1) : now' = t
    /\ UNCHANGED <<platform, aborted, probed, resHist, tsHist, absOut, tbOut>>
    /\ UNCHANGED fileVars

(***************************************************************************)
(* The specifications.                                                     *)
(***************************************************************************)
FileInit ==
    /\ fs = [p \in ValidPaths |-> [atime |-> <<0, 0>>, mtime |-> <<0, 0>>]]
    /\ pc = "idle"
    /\ path = "/tmp/x"
    /\ times = [AcTime |-> 0, ModTime |-> 0]
    /\ temp = [actime |-> 0, modtime |-> 0]
    /\ result = 0
    /\ errno = "0"
    /\ calls = <<>>
    /\ intr = 0

ClockInit ==
    /\ now = 0
    /\ aborted = "no"
    /\ probed = FALSE
    /\ resHist = <<>>
    /\ tsHist = <<>>
    /\ absOut = <<>>
    /\ tbOut = <<>>

\* The Linux build on a machine whose monotonic clock works.
DefaultPlatform ==
    [HAVE_CLOCK_MONOTONIC |-> TRUE, HAVE_MACH_ABSOLUTE_TIME |-> FALSE,
     HAVE_MACH_TIMEBASE_INFO |-> FALSE, NDEBUG |-> TRUE, monotonicCallable |-> TRUE,
     timebaseOk |-> TRUE, numer |-> 1, denom |-> 1]

\* The file-time setters, called by one thread.
InitUTime == FileInit /\ ClockInit /\ platform = DefaultPlatform

NextUTime ==
    \/ UTimeEnter
    \/ UTimeLoop
    \/ UTimesEnter
    \/ UTimesLoop
    \/ CallerResumes

SpecUTime == InitUTime /\ [][NextUTime]_vars

\* The thread in a retry loop keeps running.
LiveUTime == SpecUTime /\ WF_vars(UTimeLoop) /\ WF_vars(UTimesLoop)

\* The clock queries, on every platform.
InitTime == FileInit /\ ClockInit /\ platform \in Platforms

NextTime ==
    \/ SystemNative_GetTimestampResolution
    \/ SystemNative_GetTimestamp
    \/ SystemNative_GetAbsoluteTime
    \/ SystemNative_GetTimebaseInfo
    \/ Tick
    \/ AdjustClock

SpecTime == InitTime /\ [][NextTime]_vars

(***************************************************************************)
(* The properties.                                                         *)
(***************************************************************************)
InLoop == pc \in {"UTime:loop", "UTimes:loop"}
Returned == pc \in {"UTime:ret", "UTimes:ret"}

\* The underlying call c failed with EINTR.
Interrupted(c) == c.ret = -1 /\ c.errno = "EINTR"

\* The caller's times as the native structure the underlying call is given.
ConvertedTimes ==
    IF pc \in {"UTime:loop", "UTime:ret"}
    THEN [actime |-> times.AcTime, modtime |-> times.ModTime]
    ELSE << [tv_sec |-> times.AcTimeSec, tv_usec |-> times.AcTimeUSec],
            [tv_sec |-> times.ModTimeSec, tv_usec |-> times.ModTimeUSec] >>

\* C1: in SystemNative_UTime and SystemNative_UTimes every underlying call
\* is made with the caller's path and the converted times; every call that
\* failed with EINTR is followed by another one, however many came before
\* (while the last one was interrupted the loop can make the next); the
\* first call that is not an EINTR failure is the last call, and its return
\* value is what the caller gets.
C1_RetryExactlyOnEINTR ==
    (InLoop \/ Returned) =>
        /\ \A i \in 1..Len(calls) :
              calls[i].path = path /\ calls[i].times = ConvertedTimes
        /\ \A i \in 1..(Len(calls) - 1) : Interrupted(calls[i])
        /\ InLoop =>
              /\ \A i \in 1..Len(calls) : Interrupted(calls[i])
              /\ (pc = "UTime:loop" => ENABLED UTimeLoop)
              /\ (pc = "UTimes:loop" => ENABLED UTimesLoop)
        /\ Returned =>
              /\ Len(calls) >= 1
              /\ ~Interrupted(calls[Len(calls)])
              /\ result = calls[Len(calls)].ret
              /\ (result # 0 => errno = calls[Len(calls)].errno)

\* C1's case: SystemNative_UTimes was interrupted MaxIntr times, called a
\* last time, and returned that call's ENOENT failure.
C1_Witness ==
    /\ pc = "UTimes:ret"
    /\ Len(calls) = MaxIntr + 1
    /\ result = -1
    /\ errno = "ENOENT"

\* C2: a SystemNative_UTime call on a file that can be updated, interrupted
\* any number of times, eventually returns 0 with the file's access and
\* modification times the requested ones, and never returns anything else.
C2_InterruptedUTimeSucceeds ==
    /\ (pc = "UTime:loop" /\ path \in ValidPaths)
          ~> (/\ pc = "UTime:ret"
              /\ result = 0
              /\ Stat(path).atime = <<times.AcTime, 0>>
              /\ Stat(path).mtime = <<times.ModTime, 0>>)
    /\ [](pc = "UTime:ret" /\ path \in ValidPaths => result = 0)

\* C2's case: the call was interrupted MaxIntr times and has returned 0.
C2_Witness ==
    /\ pc = "UTime:ret"
    /\ path \in ValidPaths
    /\ intr = MaxIntr
    /\ result = 0

\* C3: when SystemNative_UTime returns for a valid path it returns 0, and
\* stat reports the access time AcTime and the modification time ModTime of
\* the caller's UTimBuf, to the second.
C3_UTimeSetsBothTimes ==
    (pc = "UTime:ret" /\ path \in ValidPaths) =>
        /\ result = 0
        /\ Stat(path).atime = <<times.AcTime, 0>>
        /\ Stat(path).mtime = <<times.ModTime, 0>>

\* C3's case: access and modification times that differ have been set.
C3_Witness ==
    /\ pc = "UTime:ret"
    /\ path = "/tmp/x"
    /\ times = [AcTime |-> 1000000000, ModTime |-> 7]
    /\ result = 0
    /\ Stat("/tmp/x") = [atime |-> <<1000000000, 0>>, mtime |-> <<7, 0>>]

\* C4: with HAVE_CLOCK_MONOTONIC every SystemNative_GetTimestampResolution
\* call gives (1, 10^9) when the clock_gettime probe succeeds and (0, 0) when
\* it fails.
C4_MonotonicResolution ==
    platform.HAVE_CLOCK_MONOTONIC =>
        \A i \in 1..Len(resHist) :
            IF platform.monotonicCallable
            THEN resHist[i].ret = 1 /\ resHist[i].resolution = [hi |-> 1, lo |-> 0]
            ELSE resHist[i].ret = 0 /\ resHist[i].resolution = [hi |-> 0, lo |-> 0]

\* C4's case: the probe failed and the call reported it.
C4_Witness ==
    /\ platform.HAVE_CLOCK_MONOTONIC
    /\ ~platform.monotonicCallable
    /\ Len(resHist) >= 1
    /\ resHist[1].ret = 0

C6_TimestampNonDecreasing ==
    (/\ Len(tsHist) = 2
     /\ tsHist[1].read
     /\ tsHist[2].read
     /\ tsHist[1].at <= tsHist[2].at)
        => U64Leq(tsHist[1].timestamp, tsHist[2].timestamp)

\* C6's case: the second reading is in the next second, its sub-second part
\* smaller than the first's.
C6_Witness ==
    /\ Len(tsHist) = 2
    /\ tsHist[1].read
    /\ tsHist[2].read
    /\ tsHist[1].at < tsHist[2].at
    /\ tsHist[1].timestamp.lo > tsHist[2].timestamp.lo
    /\ tsHist[1].timestamp.hi < tsHist[2].timestamp.hi

\* C7: two successive SystemNative_GetTimestampResolution calls give the
\* same status and the same resolution, whenever they are made.
C7_ResolutionConstant ==
    Len(resHist) = 2 => resHist[1] = resHist[2]

\* C7's case: two calls have been made, the later one at the last instant,
\* after a timestamp taken earlier.
C7_Witness ==
    /\ Len(resHist) = 2
    /\ now = MaxTime
    /\ Len(tsHist) >= 1
    /\ tsHist[Len(tsHist)].at < MaxTime
    /\ tsHist[Len(tsHist)].afterProbe
    /\ resHist[2].ret = 1

\* The gettimeofday reading of instant t as GetTimestamp converts it.
ConvertedTimeofday(t) ==
    LET tv == Gettimeofday(t, TRUE).tv
    IN  [hi |-> tv.tv_sec \div 1000,
         lo |-> ((tv.tv_sec % 1000) * 1000000) + tv.tv_usec]

\* C8: once SystemNative_GetTimestampResolution has returned 1 on a build
\* with clock_gettime or mach_absolute_time, every later
\* SystemNative_GetTimestamp call returns 1 (and none fails its assertion);
\* on the gettimeofday build the call returns 1 with seconds * 10^6 +
\* microseconds when gettimeofday succeeds and 0 with timestamp 0 when it fails.
C8_TimestampStatus ==
    LET hiRes == platform.HAVE_CLOCK_MONOTONIC \/ platform.HAVE_MACH_ABSOLUTE_TIME
    IN  /\ (hiRes /\ probed) => aborted # "GetTimestamp"
        /\ \A i \in 1..Len(tsHist) :
              LET e == tsHist[i]
              IN  /\ (hiRes /\ e.afterProbe) => e.ret = 1
                  /\ ~hiRes =>
                        IF e.read
                        THEN e.ret = 1 /\ e.timestamp = ConvertedTimeofday(e.at)
                        ELSE e.ret = 0 /\ e.timestamp = [hi |-> 0, lo |-> 0]

\* C8's case: gettimeofday failed and the call reported it.
C8_Witness ==
    /\ ~platform.HAVE_CLOCK_MONOTONIC
    /\ ~platform.HAVE_MACH_ABSOLUTE_TIME
    /\ Len(tsHist) = 2
    /\ tsHist[1].read /\ tsHist[1].ret = 1
    /\ ~tsHist[2].read /\ tsHist[2].ret = 0

\* C9: without the mach timebase every SystemNative_GetTimebaseInfo call
\* gives (1, 1) and returns 1, and every SystemNative_GetAbsoluteTime call
\* gives timestamp 0 and returns 0.
C9_NoTimebaseFacility ==
    (~platform.HAVE_MACH_ABSOLUTE_TIME /\ ~platform.HAVE_MACH_TIMEBASE_INFO) =>
        /\ \A i \in 1..Len(tbOut) : tbOut[i] = [ret |-> 1, numer |-> 1, denom |-> 1]
        /\ \A i \in 1..Len(absOut) :
              absOut[i] = [ret |-> 0, timestamp |-> [hi |-> 0, lo |-> 0]]

\* C9's case: both functions have been called, after other calls.
C9_Witness ==
    /\ ~platform.HAVE_MACH_ABSOLUTE_TIME
    /\ ~platform.HAVE_MACH_TIMEBASE_INFO
    /\ Len(tbOut) = 1
    /\ Len(absOut) = 1
    /\ Len(tsHist) >= 1
    /\ Len(resHist) >= 1

\* C10: SystemNative_GetTimestampResolution returns 1 exactly when the
\* resolution it writes is not 0.
C10_SuccessIffNonZero ==
    \A i \in 1..Len(resHist) :
        (resHist[i].ret = 1) <=> (resHist[i].resolution # [hi |-> 0, lo |-> 0])

====
